---- MODULE Spec2Model ----
(***************************************************************************)
(* State-machine model of the eBPF correlation engine of                   *)
(* opentelemetry-rust-instrumentation: the hyper (HTTP server) and tonic   *)
(* (gRPC server / client) uprobes, their correlation tables, the in-       *)
(* progress span index and the perf-event emission channels.               *)
(*                                                                         *)
(* Every uprobe runs on the thread of the target that hit it; the BPF map  *)
(* helpers are atomic one by one, a probe as a whole is not.  A probe is   *)
(* therefore modelled as a sequence of steps, one per access to shared     *)
(* state, executed by one of the threads in Threads.                       *)
(***************************************************************************)
EXTENDS Integers, Sequences, FiniteSets, TLC

\* ---------------------------------------------------------------- bounds
NKeys == 2          \* distinct non-null object identities the probes fire on
MaxClock == 2       \* clock readings in one behaviour, one probe at a time
RaceClock == 2      \* clock readings in one behaviour of interleaved probes
StrClock == 1       \* clock readings in one behaviour of the string target
PerfCapacity == 1   \* records a perf buffer holds before it is full
MaxPos == 9         \* argument positions from -2 to MaxPos are asked for
MaxBytes == 2       \* longest byte string converted besides the identifiers

\* ------------------------------------------------------ program constants
MAX_CONCURRENT == 50
MAX_METHOD_SIZE == 16
MAX_PATH_SIZE == 256
TRACE_ID_SIZE == 16
SPAN_ID_SIZE == 8

NULL == 0
Keys == 1..NKeys
\* Two invocations of probes can overlap (two threads of the target).
Threads == {1, 2}
Objects == {"hyper", "tonic"}

\* Keys of requests that are in flight when the observation starts (Busy
\* initial states); no probe of the behaviour fires on them.
FillerKeys == {100 + i : i \in 1..(MAX_CONCURRENT - 1)}

Min(a, b) == IF a < b THEN a ELSE b
Max(a, b) == IF a < b THEN b ELSE a

\* ------------------------------------------------------------ byte buffers
\* A char[N] field is written as the sequence of its bytes up to the last
\* non-zero one; the bytes after it are zero (the struct is zero-initialised).
RECURSIVE TrimLen(_, _)
TrimLen(s, n) == IF n = 0 \/ s[n] # 0 THEN n ELSE TrimLen(s, n - 1)

Trim(s) == SubSeq(s, 1, TrimLen(s, Len(s)))

ByteAt(buf, i) == IF i <= Len(buf) THEN buf[i] ELSE 0

\* Variant: every foreign read faults, so the destination is zero-filled.
probe_read_faulting(dst, size, src) ==
    Trim([i \in 1..Max(size, Len(dst)) |-> IF i <= size THEN 0 ELSE dst[i]])

\* bpf_probe_read(dst, size, src): copies size bytes from foreign memory at
\* src into dst[0..size); when the foreign read faults (null or unmapped
\* source) the helper fills dst[0..size) with zeros.  src is [ptr, data]:
\* the address and the bytes readable from it.  Bytes of dst from size on
\* are not touched.
bpf_probe_read(dst, size, src) ==
    LET ok  == src.ptr # NULL /\ size <= Len(src.data)
        n   == Max(size, Len(dst))
        raw == [i \in 1..n |->
                  IF i <= size THEN (IF ok THEN src.data[i] ELSE 0)
                  ELSE dst[i]]
    IN  Trim(raw)

\* Variant: the reported length is used as it is.
unclamped_size(cap, len) == len

\* Variant: the last byte of a source that fits the field is left out.
short_size(cap, len) == IF cap < len THEN cap ELSE len - 1

\* size = sizeof(field) < len ? sizeof(field) : len
ClampSize(cap, len) == IF cap < len THEN cap ELSE len

\* The pointer / length / bytes triple the probes read out of the target's
\* string representation.
GET      == <<71, 69, 84>>
POST     == <<80, 79, 83, 84>>
HEALTHZ  == <<47, 104, 101, 97, 108, 116, 104, 122>>
LongBytes(n) == [i \in 1..n |-> 97 + (i % 26)]

StrNull      == [ptr |-> NULL, len |-> 0, data |-> <<>>]
Str(bytes)   == [ptr |-> 1, len |-> Len(bytes), data |-> bytes]
StrFault(n)  == [ptr |-> 1, len |-> n, data |-> <<>>]
StrNullLen(n) == [ptr |-> NULL, len |-> n, data |-> <<>>]

\* What the target presents to the probes of one behaviour: the values of
\* the identifying argument, and the strings found at the field offsets.
\* uris holds the values read at request_ptr + uri_ptr_pos.
PlainTarget ==
    [args     |-> Keys,
     readings |-> MaxClock,
     methods  |-> {Str(GET)},
     uris     |-> {1},
     paths    |-> {Str(HEALTHZ)},
     services |-> {Str(HEALTHZ)}]

\* One request in flight, hit by probes on two threads at once.
RaceKey == CHOOSE k \in FillerKeys : \A j \in FillerKeys : k <= j

RaceTarget ==
    [args     |-> {RaceKey},
     readings |-> RaceClock,
     methods  |-> {Str(GET)},
     uris     |-> {1},
     paths    |-> {Str(HEALTHZ)},
     services |-> {Str(HEALTHZ)}]

\* One request object, with every shape of string: absent, short, longer
\* than the field, unreadable, and a null pointer with a non-zero length.
StringTarget ==
    [args     |-> {NULL, 1},
     readings |-> StrClock,
     methods  |-> {StrNull, Str(GET), Str(POST), Str(LongBytes(MAX_METHOD_SIZE + 1)),
                   StrFault(2)},
     uris     |-> {NULL, 1},
     paths    |-> {StrNull, Str(HEALTHZ), Str(LongBytes(MAX_PATH_SIZE + 1)),
                   StrFault(2), StrNullLen(2)},
     services |-> {StrNull, Str(HEALTHZ), Str(LongBytes(MAX_PATH_SIZE + 1)),
                   StrFault(2)}]

\* ----------------------------------------------------------------- records
\* struct http_request_t httpReq = {};
ZeroHttp == [start_time |-> 0, end_time |-> 0, method |-> <<>>, path |-> <<>>,
             status_code |-> 0, sc |-> 0]
\* struct grpc_request_t grpcReq = {};
ZeroGrpc == [start_time |-> 0, end_time |-> 0, service |-> <<>>, method |-> <<>>,
             status_code |-> 0, sc |-> 0]

\* Variant: the record is declared without "= {}" and starts with what the
\* stack held.
stale_req(o) ==
    IF o = "hyper" THEN [ZeroHttp EXCEPT !.end_time = 1]
    ELSE [ZeroGrpc EXCEPT !.end_time = 1]

\* Variant: the text fields of the new record start with bytes left on the
\* stack.
dirty_req(o) ==
    IF o = "hyper" THEN [ZeroHttp EXCEPT !.method = GET]
    ELSE [ZeroGrpc EXCEPT !.method = GET]

ZeroReq(o) == IF o = "hyper" THEN ZeroHttp ELSE ZeroGrpc

\* --------------------------------------------------------------- arguments
\* A pointer-sized value and its 8 bytes in memory (little endian).
RECURSIVE LeBytes(_, _)
LeBytes(v, n) == IF n = 0 THEN <<>> ELSE <<v % 256>> \o LeBytes(v \div 256, n - 1)

RECURSIVE LeValue(_)
LeValue(bytes) == IF bytes = <<>> THEN 0 ELSE bytes[1] + 256 * LeValue(Tail(bytes))

Architectures == {"x86_64", "aarch64"}

\* Variant: the position is forced into the range of the switch instead of
\* falling to the default case.
get_argument_clamped(arch, ctx, pos) ==
    ctx.regs[Max(1, Min(pos, IF arch = "x86_64" THEN 6 ELSE 8))]

\* get_argument(ctx, pos): PT_REGS_PARMn(ctx) for pos = n in 1..6 when
\* compiled for x86-64, ctx->regs[pos - 1] for pos in 1..8 when compiled for
\* aarch64, the default case NULL.  ctx.regs[n] is the register that carries
\* the n-th argument.
get_argument(arch, ctx, pos) ==
    IF arch = "x86_64"
    THEN CASE pos = 1 -> ctx.regs[1]
           [] pos = 2 -> ctx.regs[2]
           [] pos = 3 -> ctx.regs[3]
           [] pos = 4 -> ctx.regs[4]
           [] pos = 5 -> ctx.regs[5]
           [] pos = 6 -> ctx.regs[6]
           [] OTHER -> NULL
    ELSE CASE pos = 1 -> ctx.regs[1]
           [] pos = 2 -> ctx.regs[2]
           [] pos = 3 -> ctx.regs[3]
           [] pos = 4 -> ctx.regs[4]
           [] pos = 5 -> ctx.regs[5]
           [] pos = 6 -> ctx.regs[6]
           [] pos = 7 -> ctx.regs[7]
           [] pos = 8 -> ctx.regs[8]
           [] OTHER -> NULL

\* get_argument_by_stack(ctx, pos):
\*   void* ptr = NULL; u64 sp = PT_REGS_SP(ctx);
\*   bpf_probe_read(&ptr, sizeof(ptr), (void*)(sp + (pos * 8))); return ptr;
\* ctx.mem maps the readable stack addresses to the 8 bytes stored there; an
\* address below zero stands for the wrapped-around u64, which is unmapped.
get_argument_by_stack(ctx, pos) ==
    LET ptr  == LeBytes(NULL, 8)
        sp   == ctx.sp
        addr == sp + (pos * 8)
        src  == [ptr |-> addr, len |-> 8,
                 data |-> IF addr \in DOMAIN ctx.mem THEN ctx.mem[addr] ELSE <<>>]
    IN  LeValue(bpf_probe_read(ptr, 8, src))

\* --------------------------------------------------------------------- hex
\* Variant: the digits above 9 are written in upper case.
hex_char_upper(value) == IF value < 10 THEN 48 + value ELSE 65 + (value - 10)

\* hex_char(value): '0' + value below 10, else 'a' + (value - 10).
hex_char(value) == IF value < 10 THEN 48 + value ELSE 97 + (value - 10)

\* bytes_to_hex_string(bytes, size, out): for i in 0..size-1,
\*   out[2i] = hex_char((bytes[i] >> 4) & 0x0F); out[2i+1] = hex_char(bytes[i] & 0x0F);
\* the rest of out is not written.
bytes_to_hex_string(bytes, size, out) ==
    [j \in 1..Len(out) |->
        IF j > 2 * size THEN out[j]
        ELSE IF j % 2 = 1 THEN hex_char((bytes[(j + 1) \div 2] \div 16) % 16)
        ELSE hex_char(bytes[j \div 2] % 16)]

\* hex_to_byte(c): the value of a digit '0'-'9', 'a'-'f' or 'A'-'F', else 0.
hex_to_byte(c) ==
    IF c >= 48 /\ c <= 57 THEN c - 48
    ELSE IF c >= 97 /\ c <= 102 THEN c - 97 + 10
    ELSE IF c >= 65 /\ c <= 70 THEN c - 65 + 10
    ELSE 0

\* hex_string_to_bytes(hex, hex_len, out): for i in 0..hex_len/2-1,
\*   out[i] = (hex_to_byte(hex[2i]) << 4) | hex_to_byte(hex[2i+1]);
\* the low nibble of the shifted value is zero, so the or is a sum; the
\* result is stored into a u8.
hex_string_to_bytes(hex, hex_len, out) ==
    [i \in 1..Len(out) |->
        IF i > hex_len \div 2 THEN out[i]
        ELSE ((hex_to_byte(hex[2 * i - 1]) * 16) + hex_to_byte(hex[2 * i])) % 256]

\* ------------------------------------------------------------------- maps
\* A BPF hash map is a function from the keys present to their values.
EmptyMap == [k \in {} |-> 0]

\* Variant: a full map makes room by evicting an entry (LRU-map behaviour).
update_evicting(m, cap, k, v) ==
    IF k \in DOMAIN m \/ Cardinality(DOMAIN m) < cap
    THEN [x \in (DOMAIN m) \cup {k} |-> IF x = k THEN v ELSE m[x]]
    ELSE LET victim == CHOOSE x \in DOMAIN m : TRUE
         IN  [x \in ((DOMAIN m) \ {victim}) \cup {k} |-> IF x = k THEN v ELSE m[x]]

\* Variant: the update is made with BPF_NOEXIST, which keeps a present key.
update_noexist(m, cap, k, v) ==
    IF k \in DOMAIN m THEN m
    ELSE IF Cardinality(DOMAIN m) < cap
    THEN [x \in (DOMAIN m) \cup {k} |-> IF x = k THEN v ELSE m[x]]
    ELSE m

\* bpf_map_update_elem(map, &k, &v, 0) on a BPF_MAP_TYPE_HASH of max_entries
\* cap: a present key is replaced, an absent key is inserted while there is
\* room, and otherwise the call fails and the map is left as it is.
bpf_map_update_elem(m, cap, k, v) ==
    IF k \in DOMAIN m THEN [m EXCEPT ![k] = v]
    ELSE IF Cardinality(DOMAIN m) < cap THEN m @@ (k :> v)
    ELSE m

\* Variant: a lookup that initialises the entry it does not find.
lookup_or_init(m, k) ==
    [found |-> TRUE,
     val |-> IF k \in DOMAIN m THEN m[k]
             ELSE [start_time |-> 0, end_time |-> 0, method |-> <<>>, path |-> <<>>,
                   status_code |-> 0, sc |-> 0]]

\* bpf_map_lookup_elem(map, &k): a pointer to the value stored under k, or
\* NULL (found = FALSE).  The probes copy the value out (bpf_probe_read of
\* the returned pointer) before they touch the map again, so the lookup is
\* modelled with its copy in val.
bpf_map_lookup_elem(m, k) ==
    IF k \in DOMAIN m THEN [found |-> TRUE, val |-> m[k]]
    ELSE [found |-> FALSE, val |-> ZeroHttp]

\* Variant: the delete is left out.
delete_skipped(m, k) == m

\* bpf_map_delete_elem(map, &k): removes k when present, else does nothing.
bpf_map_delete_elem(m, k) == [x \in (DOMAIN m) \ {k} |-> m[x]]

\* ------------------------------------------------------------------ state
VARIABLES
    obj,        \* which BPF object this is: "hyper" or "tonic" (each has its own maps)
    table,      \* context_to_http_events (hyper) / context_to_grpc_events (tonic)
    spans,      \* spans_in_progress of the object
    chan,       \* perf buffer behind events (hyper) / grpc_events (tonic)
    now,        \* the monotonic clock
    nsc,        \* the span context the next generate_span_context() returns
    th,         \* th[t]: where thread t is inside a probe, and its locals
    emitted,    \* history: the records delivered to the channel, with their key
    dropped,    \* history: <<key, start_time>> of the records the channel refused
    entered,    \* history: keys on which an entry probe has fired
    stamped,    \* history: <<start_time, span context>> of the records the entry
                \* probes have built
    untracked,  \* history: keys whose last entry probe found the table full
    open,       \* history: per key, the entry probe fired last and what followed
    raced,      \* history: a return probe has overlapped another probe on its key
    overlapped, \* history: two probes have been inside their code on one key
    call,       \* the helper function under test, its inputs and its result
    last        \* history: the step taken last

vars == <<obj, table, spans, chan, now, nsc, th, emitted, dropped, entered, stamped,
          untracked, open, raced, overlapped, call, last>>

context_to_http_events == IF obj = "hyper" THEN table ELSE EmptyMap
context_to_grpc_events == IF obj = "tonic" THEN table ELSE EmptyMap
events == IF obj = "hyper" THEN chan ELSE <<>>
grpc_events == IF obj = "tonic" THEN chan ELSE <<>>
spans_in_progress == spans

\* The monotonic clock when the first probe of the behaviour fires.
BootTime == 2 * MAX_CONCURRENT

EntryProbes == {"hyper_serve_connection", "tonic_server_serve", "tonic_client_call"}
ReturnProbes == {"hyper_serve_connection_return", "tonic_server_serve_return",
                 "tonic_client_call_return"}
EnrichProbes == {"hyper_request_method", "hyper_request_uri"}

\* The entry probe a return probe is the counterpart of.
EntryOf(probe) ==
    CASE probe = "hyper_serve_connection_return" -> "hyper_serve_connection"
      [] probe = "tonic_server_serve_return" -> "tonic_server_serve"
      [] probe = "tonic_client_call_return" -> "tonic_client_call"
      [] OTHER -> "none"

ServerEntryOf(o) == IF o = "hyper" THEN "hyper_serve_connection" ELSE "tonic_server_serve"

\* ------------------------------------------------- history bookkeeping
\* open[k]: the entry probe that fired last on k with no return probe fired
\* since (by), the start_time it stamped, the span context it generated,
\* whether its insertion went into the table (tracked), and the source
\* strings the method and URI enrichment probes fired since were given.
NoOpen == [by |-> "none", tracked |-> FALSE, start |-> 0, sc |-> 0,
           method |-> StrNull, path |-> StrNull]
NoIn == [method |-> StrNull, path |-> StrNull, service |-> StrNull]

IdleThread == [pc |-> "idle", probe |-> "none", key |-> NULL, req |-> ZeroHttp,
               in |-> NoIn, pair |-> NoOpen]

Goto(t, pc, probe, key, req, in, pair) ==
    th' = [th EXCEPT ![t] = [pc |-> pc, probe |-> probe, key |-> key, req |-> req,
                             in |-> in, pair |-> pair]]

Return(t) == th' = [th EXCEPT ![t] = IdleThread]

\* A probe starts on thread t on key k while another thread is inside a
\* probe on k, and one of the two is a return probe.
Overlaps(t, probe, k) ==
    \E u \in Threads \ {t} :
        /\ th[u].pc # "idle"
        /\ th[u].key = k
        /\ (probe \in ReturnProbes \/ th[u].probe \in ReturnProbes)

\* No helper function is under test while the probes run.
NoCall == [fn |-> "none"]

\* A probe starts on thread t on key k while another thread is inside a
\* probe on k.
Concurrent(t, k) ==
    \E u \in Threads \ {t} : th[u].pc # "idle" /\ th[u].key = k

Did(t, probe, step, key) ==
    /\ last' = [probe |-> probe, step |-> step, key |-> key]
    /\ raced' = (raced \/ (th[t].pc = "idle" /\ key # NULL /\ Overlaps(t, probe, key)))
    /\ overlapped' = (overlapped \/ (th[t].pc = "idle" /\ key # NULL /\ Concurrent(t, key)))
    /\ UNCHANGED call

\* The enrichment probe fired on k with a source string to read.
Enriched(k, field, src) ==
    open' = IF open[k].by = "none" THEN open
            ELSE IF field = "method" THEN [open EXCEPT ![k].method = src]
            ELSE [open EXCEPT ![k].path = src]

At(t, probe, pc) == th[t].pc = pc /\ th[t].probe = probe

\* ---------------------------------------------------------------- helpers
\* Variant: a clock that does not advance between two readings.
coarse_clock == 2 * MAX_CONCURRENT

\* bpf_ktime_get_ns(): nanoseconds since boot.  Every reading advances the
\* clock, so that two readings one after the other differ.
bpf_ktime_get_ns == now

ClockReadable(e) == now < BootTime + e.readings

\* Variant: the null test is left out.
never_null(ptr) == FALSE

\* get_argument(ctx, 1) / get_argument_by_stack(ctx, 1): the probes test the
\* value for NULL; an unreadable stack slot reads as NULL.
IsNull(ptr) == ptr = NULL

\* generate_span_context() and the span index live in span_context.h.
\* The identifiers are random; the model hands out values not used before.
generate_span_context == nsc

\* Variant: the index keeps the span context a present key already has.
spans_keep(m, k, sc, room) ==
    IF k \in DOMAIN m THEN m
    ELSE IF room THEN [x \in (DOMAIN m) \cup {k} |-> IF x = k THEN sc ELSE m[x]]
    ELSE m

\* bpf_map_update_elem(&spans_in_progress, &k, &sc, 0).  The capacity of the
\* index is not fixed by the design: a present key is replaced, an absent
\* key is inserted when the index has room.
spans_update(m, k, sc, room) ==
    IF k \in DOMAIN m \/ room THEN
        [x \in (DOMAIN m) \cup {k} |-> IF x = k THEN sc ELSE m[x]]
    ELSE m

\* Variant: a full buffer overwrites its oldest record (overwrite mode).
output_overwriting(ch, rec) ==
    IF ch = <<>> THEN <<rec>>
    ELSE IF Len(ch) < PerfCapacity THEN Append(ch, rec)
    ELSE Append(Tail(ch), rec)

\* bpf_perf_event_output(ctx, &chan, BPF_F_CURRENT_CPU, &rec, sizeof(rec)):
\* appends the record when the buffer has room, else drops it (-ENOSPC).
PerfHasRoom(ch) == Len(ch) < PerfCapacity

bpf_perf_event_output(ch, rec) ==
    IF Len(ch) < PerfCapacity THEN Append(ch, rec) ELSE ch

\* How an entry probe's bpf_map_update_elem on the table ends.
UpdateOutcome(m, k) ==
    IF k \in DOMAIN m THEN "replace"
    ELSE IF Cardinality(DOMAIN m) < MAX_CONCURRENT THEN "insert"
    ELSE "full"

\* ------------------------------------------------------------ entry probes
\* The first step of every entry probe:
\*   req = {}; req.start_time = bpf_ktime_get_ns();
\*   self_ptr = get_argument(ctx, 1); if (!self_ptr) return 0;
EntryStart(t, e, o, probe) ==
    /\ th[t].pc = "idle"
    /\ ClockReadable(e)
    /\ now' = now + 1
    /\ \E self_ptr \in e.args :
         /\ Did(t, probe, "start", self_ptr)
         /\ IF IsNull(self_ptr)
            THEN /\ Return(t)
                 /\ UNCHANGED <<entered, open>>
            ELSE /\ Goto(t, "update", probe, self_ptr,
                         [ZeroReq(o) EXCEPT !.start_time = bpf_ktime_get_ns],
                         NoIn, NoOpen)
                 /\ entered' = entered \cup {self_ptr}
                 /\ open' = [open EXCEPT ![self_ptr] =
                               [NoOpen EXCEPT !.by = probe, !.start = now]]
    /\ UNCHANGED <<obj, table, spans, chan, nsc, emitted, dropped, stamped, untracked>>

\* The table update of every entry probe:
\*   req.sc = generate_span_context();
\*   bpf_map_update_elem(&table, &self_ptr, &req, 0);
EntryUpdate(t, probe, req, in) ==
    LET k == th[t].key
        r == [req EXCEPT !.sc = generate_span_context]
    IN  /\ table' = bpf_map_update_elem(table, MAX_CONCURRENT, k, r)
        /\ nsc' = nsc + 1
        /\ Goto(t, "span", probe, k, r, in, NoOpen)
        /\ Did(t, probe, UpdateOutcome(table, k), k)
        /\ open' = IF open[k].by = probe /\ open[k].start = r.start_time
                   THEN [open EXCEPT ![k].tracked = (k \in DOMAIN table'),
                                     ![k].sc = r.sc]
                   ELSE open
        /\ stamped' = stamped \cup {<<r.start_time, r.sc>>}
        /\ untracked' = IF UpdateOutcome(table, k) = "full"
                        THEN untracked \cup {k} ELSE untracked \ {k}
        /\ UNCHANGED <<obj, spans, chan, now, emitted, dropped, entered>>

\* The last step of every entry probe:
\*   bpf_map_update_elem(&spans_in_progress, &self_ptr, &req.sc, 0);
EntrySpan(t, probe) ==
    /\ At(t, probe, "span")
    /\ \E room \in BOOLEAN :
         spans' = spans_update(spans, th[t].key, th[t].req.sc, room)
    /\ Return(t)
    /\ Did(t, probe, "span", th[t].key)
    /\ UNCHANGED <<obj, table, chan, now, nsc, emitted, dropped, entered, stamped, untracked, open>>

\* uprobe_hyper_serve_connection and uprobe_tonic_server_serve: the same
\* code over the object's own record type, table and span index.
ServerEntry(t, e, o, probe) ==
    \/ EntryStart(t, e, o, probe)
    \/ At(t, probe, "update") /\ EntryUpdate(t, probe, th[t].req, NoIn)
    \/ EntrySpan(t, probe)

uprobe_hyper_serve_connection(t, e) ==
    ServerEntry(t, e, "hyper", "hyper_serve_connection")

uprobe_tonic_server_serve(t, e) ==
    ServerEntry(t, e, "tonic", "tonic_server_serve")

\* uprobe_tonic_client_call: the entry probe also extracts service and
\* method, each only when its pointer is not null.
ClientExtract(grpcReq, service, method) ==
    LET r1 == IF service.ptr # NULL
              THEN [grpcReq EXCEPT !.service = bpf_probe_read(@,
                       ClampSize(MAX_PATH_SIZE, service.len), service)]
              ELSE grpcReq
    IN  IF method.ptr # NULL
        THEN [r1 EXCEPT !.method = bpf_probe_read(@,
                 ClampSize(MAX_METHOD_SIZE, method.len), method)]
        ELSE r1

uprobe_tonic_client_call(t, e) ==
    \/ EntryStart(t, e, "tonic", "tonic_client_call")
    \/ /\ At(t, "tonic_client_call", "update")
       /\ \E service \in e.services, method \in e.methods :
            EntryUpdate(t, "tonic_client_call",
                        ClientExtract(th[t].req, service, method),
                        [NoIn EXCEPT !.service = service, !.method = method])
    \/ EntrySpan(t, "tonic_client_call")

\* ----------------------------------------------------------- return probes
\* uprobe_hyper_serve_connection_return, uprobe_tonic_server_serve_return and
\* uprobe_tonic_client_call_return: the same code over the object's table,
\* channel and span index.
ReturnProbe(t, e, probe) ==
    \/ \* self_ptr = get_argument_by_stack(ctx, 1); lookup; copy of the record
       /\ th[t].pc = "idle"
       /\ \E self_ptr \in e.args :
            LET req_ptr == bpf_map_lookup_elem(table, self_ptr)
                pair == IF self_ptr \in DOMAIN open THEN open[self_ptr] ELSE NoOpen
            IN  IF IsNull(self_ptr)
                THEN /\ Return(t)
                     /\ Did(t, probe, "start", self_ptr)
                     /\ UNCHANGED open
                ELSE /\ open' = [open EXCEPT ![self_ptr] = NoOpen]
                     /\ IF ~req_ptr.found
                        THEN /\ Return(t)
                             /\ Did(t, probe, "miss", self_ptr)
                        ELSE /\ Goto(t, "emit", probe, self_ptr, req_ptr.val, NoIn, pair)
                             /\ Did(t, probe, "lookup", self_ptr)
       /\ UNCHANGED <<obj, table, spans, chan, now, nsc, emitted, dropped, entered, stamped, untracked>>
    \/ \* req.end_time = bpf_ktime_get_ns(); bpf_perf_event_output(...)
       /\ At(t, probe, "emit")
       /\ ClockReadable(e)
       /\ now' = now + 1
       /\ LET req == [th[t].req EXCEPT !.end_time = bpf_ktime_get_ns]
              k == th[t].key
          IN  /\ chan' = bpf_perf_event_output(chan, req)
              /\ IF PerfHasRoom(chan)
                 THEN /\ emitted' = Append(emitted, [key |-> k, rec |-> req])
                      /\ UNCHANGED dropped
                 ELSE /\ dropped' = dropped \cup {<<k, req.start_time>>}
                      /\ UNCHANGED emitted
              /\ Goto(t, "delete", probe, k, req, NoIn, th[t].pair)
              /\ Did(t, probe, IF PerfHasRoom(chan) THEN "emit" ELSE "drop", k)
       /\ UNCHANGED <<obj, table, spans, nsc, entered, stamped, untracked, open>>
    \/ \* bpf_map_delete_elem(&table, &self_ptr)
       /\ At(t, probe, "delete")
       /\ table' = bpf_map_delete_elem(table, th[t].key)
       /\ Goto(t, "delspan", probe, th[t].key, th[t].req, NoIn, th[t].pair)
       /\ Did(t, probe, "delete", th[t].key)
       /\ UNCHANGED <<obj, spans, chan, now, nsc, emitted, dropped, entered, stamped, untracked, open>>
    \/ \* bpf_map_delete_elem(&spans_in_progress, &self_ptr)
       /\ At(t, probe, "delspan")
       /\ spans' = bpf_map_delete_elem(spans, th[t].key)
       /\ Return(t)
       /\ Did(t, probe, "delspan", th[t].key)
       /\ UNCHANGED <<obj, table, chan, now, nsc, emitted, dropped, entered, stamped, untracked, open>>

uprobe_hyper_serve_connection_return(t, e) ==
    ReturnProbe(t, e, "hyper_serve_connection_return")

uprobe_tonic_server_serve_return(t, e) ==
    ReturnProbe(t, e, "tonic_server_serve_return")

uprobe_tonic_client_call_return(t, e) ==
    ReturnProbe(t, e, "tonic_client_call_return")

\* ------------------------------------------------------- enrichment probes
\* The write-back of both enrichment probes:
\*   bpf_map_update_elem(&context_to_http_events, &request_ptr, &httpReq, 0);
EnrichWrite(t, probe) ==
    /\ At(t, probe, "write")
    /\ table' = bpf_map_update_elem(table, MAX_CONCURRENT, th[t].key, th[t].req)
    /\ Return(t)
    /\ Did(t, probe, "write", th[t].key)
    /\ UNCHANGED <<obj, spans, chan, now, nsc, emitted, dropped, entered, stamped, untracked, open>>

uprobe_hyper_request_method(t, e) ==
    \/ \* lines 66-89: argument, method pointer, lookup, copy, bounded read
       /\ th[t].pc = "idle"
       /\ \E request_ptr \in e.args, method \in e.methods :
            LET httpReq_ptr == bpf_map_lookup_elem(table, request_ptr)
                method_size == ClampSize(MAX_METHOD_SIZE, method.len)
            IN  IF IsNull(request_ptr)
                THEN /\ Return(t)
                     /\ Did(t, "hyper_request_method", "start", request_ptr)
                     /\ UNCHANGED open
                ELSE IF method.ptr = NULL
                THEN /\ Return(t)
                     /\ Did(t, "hyper_request_method", "nofield", request_ptr)
                     /\ UNCHANGED open
                ELSE IF ~httpReq_ptr.found
                THEN /\ Return(t)
                     /\ Did(t, "hyper_request_method", "miss", request_ptr)
                     /\ Enriched(request_ptr, "method", method)
                ELSE /\ Enriched(request_ptr, "method", method)
                     /\ Goto(t, "write", "hyper_request_method", request_ptr,
                             [httpReq_ptr.val EXCEPT !.method =
                                 bpf_probe_read(@, method_size, method)],
                             [NoIn EXCEPT !.method = method], NoOpen)
                     /\ Did(t, "hyper_request_method", "lookup", request_ptr)
       /\ UNCHANGED <<obj, table, spans, chan, now, nsc, emitted, dropped, entered, stamped, untracked>>
    \/ EnrichWrite(t, "hyper_request_method")

uprobe_hyper_request_uri(t, e) ==
    \/ \* lines 98-124: argument, uri pointer, lookup, copy, path pointer and
       \* length, bounded read (path_ptr is not tested for NULL)
       /\ th[t].pc = "idle"
       /\ \E request_ptr \in e.args, uri_ptr \in e.uris, path \in e.paths :
            LET httpReq_ptr == bpf_map_lookup_elem(table, request_ptr)
                path_size == ClampSize(MAX_PATH_SIZE, path.len)
            IN  IF IsNull(request_ptr)
                THEN /\ Return(t)
                     /\ Did(t, "hyper_request_uri", "start", request_ptr)
                     /\ UNCHANGED open
                ELSE IF uri_ptr = NULL
                THEN /\ Return(t)
                     /\ Did(t, "hyper_request_uri", "nofield", request_ptr)
                     /\ UNCHANGED open
                ELSE IF ~httpReq_ptr.found
                THEN /\ Return(t)
                     /\ Did(t, "hyper_request_uri", "miss", request_ptr)
                     /\ Enriched(request_ptr, "path", path)
                ELSE /\ Enriched(request_ptr, "path", path)
                     /\ Goto(t, "write", "hyper_request_uri", request_ptr,
                             [httpReq_ptr.val EXCEPT !.path =
                                 bpf_probe_read(@, path_size, path)],
                             [NoIn EXCEPT !.path = path], NoOpen)
                     /\ Did(t, "hyper_request_uri", "lookup", request_ptr)
       /\ UNCHANGED <<obj, table, spans, chan, now, nsc, emitted, dropped, entered, stamped, untracked>>
    \/ EnrichWrite(t, "hyper_request_uri")

\* ---------------------------------------------------------------- consumer
\* The userspace collector takes the oldest record out of the perf buffer.
Consume ==
    /\ chan # <<>>
    /\ chan' = Tail(chan)
    /\ last' = [probe |-> "collector", step |-> "consume", key |-> NULL]
    /\ UNCHANGED <<obj, table, spans, now, nsc, th, emitted, dropped, entered, stamped, untracked, open,
                   raced, overlapped, call>>

\* ----------------------------------------------------------- specification
HyperProbe(t, e) ==
    \/ uprobe_hyper_serve_connection(t, e)
    \/ uprobe_hyper_serve_connection_return(t, e)
    \/ uprobe_hyper_request_method(t, e)
    \/ uprobe_hyper_request_uri(t, e)

TonicProbe(t, e) ==
    \/ uprobe_tonic_server_serve(t, e)
    \/ uprobe_tonic_server_serve_return(t, e)
    \/ uprobe_tonic_client_call(t, e)
    \/ uprobe_tonic_client_call_return(t, e)

Probe(t, e) ==
    \/ obj = "hyper" /\ HyperProbe(t, e)
    \/ obj = "tonic" /\ TonicProbe(t, e)

InitLocal ==
    /\ obj \in Objects
    /\ now = BootTime
    /\ nsc = BootTime
    /\ th = [t \in Threads |-> IdleThread]
    /\ dropped = {}
    /\ raced = FALSE
    /\ overlapped = FALSE
    /\ last = [probe |-> "none", step |-> "none", key |-> NULL]

\* The maps and the history after the BPF object is loaded: every map is
\* empty.
Loaded ==
    /\ InitLocal
    /\ table = EmptyMap
    /\ spans = EmptyMap
    /\ chan = <<>>
    /\ emitted = <<>>
    /\ entered = {}
    /\ stamped = {}
    /\ untracked = {}
    /\ open = [k \in Keys \cup {RaceKey} |-> NoOpen]

\* The state after the BPF object is loaded.
Init == Loaded /\ call = NoCall

\* The object some time after loading: the requests on the keys in flight
\* were opened by the server entry probe (at times 1 .. MAX_CONCURRENT - 1)
\* and are still in the table, and the perf buffer holds the records of
\* done requests completed since, which the collector has not taken yet.
FillerReq(o, k) == [ZeroReq(o) EXCEPT !.start_time = k - 100, !.sc = k - 100]

DoneKey(i) == 200 + i

DoneReq(o, i) ==
    [ZeroReq(o) EXCEPT !.start_time = MAX_CONCURRENT + 2 * i - 2,
                       !.end_time = MAX_CONCURRENT + 2 * i - 1,
                       !.sc = MAX_CONCURRENT + i - 1]

InitInFlight(flight, done) ==
    /\ InitLocal
    /\ call = NoCall
    /\ table = [k \in flight |-> FillerReq(obj, k)]
    /\ spans = [k \in flight |-> k - 100]
    /\ chan = [i \in 1..done |-> DoneReq(obj, i)]
    /\ emitted = [i \in 1..done |-> [key |-> DoneKey(i), rec |-> DoneReq(obj, i)]]
    /\ entered = flight \cup {DoneKey(i) : i \in 1..done}
    /\ stamped = {<<FillerReq(obj, k).start_time, FillerReq(obj, k).sc>> : k \in flight}
                 \cup {<<DoneReq(obj, i).start_time, DoneReq(obj, i).sc>> : i \in 1..done}
    /\ untracked = {}
    /\ open = [k \in Keys \cup {RaceKey} |->
                IF k \in flight
                THEN [NoOpen EXCEPT !.by = ServerEntryOf(obj), !.tracked = TRUE,
                                    !.start = k - 100, !.sc = k - 100]
                ELSE NoOpen]

\* A busy object: MAX_CONCURRENT - 1 requests are in flight and the perf
\* buffer is full.
InitBusy == InitInFlight(FillerKeys, PerfCapacity)

\* One request in flight, on RaceKey, and an empty perf buffer.
InitRace == InitInFlight({RaceKey}, 0)

\* Probes of the two threads interleave step by step.  The threads are
\* interchangeable: a probe that starts is given the first idle thread.
FreeThread == IF th[1].pc = "idle" THEN 1 ELSE 2

NextRace ==
    \/ \E t \in Threads : (th[t].pc # "idle" \/ t = FreeThread) /\ Probe(t, RaceTarget)
    \/ Consume

\* One probe at a time: each runs to completion before the next fires.
Next == Probe(1, PlainTarget) \/ Consume

\* One probe at a time, on a target with every shape of string; the
\* collector plays no part in what the probes store.
NextStr == Probe(1, StringTarget)

Spec == Init /\ [][Next]_vars
SpecBusy == InitBusy /\ [][Next]_vars
SpecStr == Init /\ [][NextStr]_vars
SpecRace == InitRace /\ [][NextRace]_vars

\* ------------------------------------------------- the argument extractor
\* The register contexts the extractor is applied to: the eight argument
\* registers, the stack pointer, and the readable part of the stack.  One
\* context has a null first argument, a zero slot on the stack and its
\* stack pointer so low that positions below zero leave the address space.
Positions == (0 - 2)..MaxPos

Contexts ==
    {[regs |-> [n \in 1..8 |-> 1000 + n],
      sp   |-> 4096,
      mem  |-> [a \in {4096 + 8 * n : n \in (0 - 1)..4} |-> LeBytes(a + 7, 8)]],
     [regs |-> [n \in 1..8 |-> IF n = 1 THEN NULL ELSE 2000 + n],
      sp   |-> 8,
      mem  |-> [a \in {8, 16, 24} |-> LeBytes(IF a = 16 THEN NULL ELSE 70000 + a, 8)]]}

InitArg ==
    /\ Loaded
    /\ obj = "hyper"
    /\ call \in [fn : {"none"}, arch : Architectures, ctx : Contexts, pos : Positions,
                 ret : {NULL}]

ProbesIdle ==
    UNCHANGED <<obj, table, spans, chan, now, nsc, th, emitted, dropped, entered, stamped, untracked,
                open, raced, overlapped, last>>

call_get_argument ==
    /\ call.fn = "none"
    /\ call' = [call EXCEPT !.fn = "get_argument",
                            !.ret = get_argument(call.arch, call.ctx, call.pos)]
    /\ ProbesIdle

call_get_argument_by_stack ==
    /\ call.fn = "none"
    /\ call' = [call EXCEPT !.fn = "get_argument_by_stack",
                            !.ret = get_argument_by_stack(call.ctx, call.pos)]
    /\ ProbesIdle

NextArg == call_get_argument \/ call_get_argument_by_stack

SpecArg == InitArg /\ [][NextArg]_vars

\* ------------------------------------------------------ the hex encoding
\* The byte strings converted: every single byte, the strings of up to
\* MaxBytes bytes over a few values, and one identifier of each size.
ByteSamples == {0, 9, 10, 255}

RECURSIVE SeqsUpTo(_, _)
SeqsUpTo(S, n) ==
    IF n = 0 THEN {<<>>}
    ELSE LET shorter == SeqsUpTo(S, n - 1)
         IN  shorter \cup {Append(q, b) : q \in shorter, b \in S}

Identifier(size) == [i \in 1..size |-> (37 * i + 11 * size) % 256]

ByteStrings ==
    {<<b>> : b \in 0..255} \cup SeqsUpTo(ByteSamples, MaxBytes)
    \cup {Identifier(TRACE_ID_SIZE), Identifier(SPAN_ID_SIZE)}

\* The caller's buffers: one char more than the digits, all zero, and as
\* many bytes as were encoded, all zero.
HexBuffer(size) == [j \in 1..(2 * size + 1) |-> 0]
ByteBuffer(size) == [i \in 1..size |-> 0]

InitHex ==
    /\ Loaded
    /\ obj = "hyper"
    /\ call \in [fn : {"none"}, bytes : ByteStrings, hex : {<<>>}, out : {<<>>}]

call_bytes_to_hex_string ==
    /\ call.fn = "none"
    /\ call' = [call EXCEPT !.fn = "bytes_to_hex_string",
                            !.hex = bytes_to_hex_string(call.bytes, Len(call.bytes),
                                                        HexBuffer(Len(call.bytes)))]
    /\ ProbesIdle

call_hex_string_to_bytes ==
    /\ call.fn = "bytes_to_hex_string"
    /\ call' = [call EXCEPT !.fn = "hex_string_to_bytes",
                            !.out = hex_string_to_bytes(call.hex, 2 * Len(call.bytes),
                                                        ByteBuffer(Len(call.bytes)))]
    /\ ProbesIdle

NextHex == call_bytes_to_hex_string \/ call_hex_string_to_bytes

SpecHex == InitHex /\ [][NextHex]_vars

\* ================================================================ properties
AllProbes == EntryProbes \cup ReturnProbes \cup EnrichProbes

\* The records delivered for key k with start timestamp s.
EmittedFor(k, s) ==
    {i \in DOMAIN emitted : emitted[i].key = k /\ emitted[i].rec.start_time = s}

\* ------------------------------------------------------------------- C8
\* C8: in every probe, when the identifying first argument is null or
\* unreadable (it then reads as NULL) the probe returns in that same step:
\* the table, the span index, the channel and the emitted records are left
\* as they were and the thread is back outside the probe.
NullArgumentReturnsAtOnce ==
    [][(last'.probe \in AllProbes /\ last'.key = NULL)
         => /\ UNCHANGED <<table, spans, chan, emitted, dropped, open>>
            /\ th'[1].pc = "idle"]_vars

\* A null argument was given to a return probe while a request was tracked.
NullArgumentSeen ==
    /\ last.probe \in ReturnProbes
    /\ last.step = "start"
    /\ last.key = NULL
    /\ th[1].pc = "idle"
    /\ DOMAIN table # {}
    /\ DOMAIN spans # {}

\* ------------------------------------------------------------------- C4
\* C4: a return probe or an enrichment probe firing on a key on which no
\* entry probe has ever fired leaves the table and the span index as they
\* were, emits nothing, and returns in that same step.
NeverEnteredKeyIsIgnored ==
    [][(/\ last'.probe \in ReturnProbes \cup EnrichProbes
        /\ last'.key # NULL
        /\ last'.key \notin entered)
         => /\ UNCHANGED <<table, spans, chan, emitted, dropped>>
            /\ th'[1].pc = "idle"]_vars

\* A return probe missed on a never-entered key while another is tracked.
NeverEnteredKeySeen ==
    /\ last.probe \in ReturnProbes
    /\ last.step = "miss"
    /\ last.key \notin entered
    /\ DOMAIN table # {}
    /\ DOMAIN spans # {}

\* ------------------------------------------------------------------- C3
\* C3: the table never holds more than MAX_CONCURRENT (50) entries; when it
\* holds 50 and an entry probe updates it with a key that is not in it, the
\* table is left exactly as it was (nothing is evicted), nothing is emitted,
\* the probe goes on to its last step, and the key is not tracked.
TableCapacityRespected ==
    /\ [](Cardinality(DOMAIN table) <= MAX_CONCURRENT)
    /\ [][(/\ th[1].pc = "update"
            /\ th'[1] # th[1]
            /\ th[1].key \notin DOMAIN table
            /\ Cardinality(DOMAIN table) = MAX_CONCURRENT)
             => /\ table' = table
                /\ th'[1].pc = "span"
                /\ th[1].key \notin DOMAIN table'
                /\ ~open'[th[1].key].tracked
                /\ UNCHANGED <<chan, emitted, dropped>>]_vars

\* An entry probe found the table full and went on.
TableFullSeen ==
    /\ last.step = "full"
    /\ th[1].pc = "span"
    /\ Cardinality(DOMAIN table) = MAX_CONCURRENT
    /\ th[1].key \notin DOMAIN table

\* ------------------------------------------------------------------ C10
\* C10: when the channel is full at the step where a return probe emits, the
\* channel and the emitted records are left as they were and the probe goes
\* on to its deletes; when the probe has finished its key is in neither the
\* table nor the span index; a dropped record is never among the emitted.
FullChannelDropsRecord ==
    /\ [][(th[1].pc = "emit" /\ th'[1] # th[1] /\ Len(chan) >= PerfCapacity)
             => /\ chan' = chan
                /\ emitted' = emitted
                /\ table' = table
                /\ th'[1].pc = "delete"
                /\ th'[1].key = th[1].key
                /\ <<th[1].key, th[1].req.start_time>> \in dropped']_vars
    /\ [][(th[1].pc = "delspan" /\ th'[1] # th[1])
             => /\ th'[1].pc = "idle"
                /\ th[1].key \notin DOMAIN table'
                /\ th[1].key \notin DOMAIN spans']_vars
    /\ [](\A d \in dropped : EmittedFor(d[1], d[2]) = {})

\* A return probe whose record was dropped has run to completion.
DroppedRecordSeen ==
    /\ last.probe \in ReturnProbes
    /\ last.step = "delspan"
    /\ th[1].pc = "idle"
    /\ \E d \in dropped : d[1] = last.key
    /\ Len(chan) = PerfCapacity

\* No record is delivered twice: two emitted records with the same key and
\* start timestamp are one and the same.
NoDuplicateRecord ==
    \A i, j \in DOMAIN emitted :
        (/\ emitted[i].key = emitted[j].key
         /\ emitted[i].rec.start_time = emitted[j].rec.start_time) => i = j

\* Thread 1 takes the first step of a return probe that is the counterpart
\* of the entry probe fired last on its key.
PairedLookupStep ==
    /\ th[1].pc = "idle"
    /\ last'.probe \in ReturnProbes
    /\ last'.key # NULL
    /\ open[last'.key].by = EntryOf(last'.probe)

\* Thread 1 takes the emit step of such a return probe.
PairedEmitStep ==
    /\ th[1].pc = "emit"
    /\ th'[1] # th[1]
    /\ th[1].pair.by = EntryOf(th[1].probe)

\* ------------------------------------------------------------------- C1
\* C1 as amended: for every protocol, when an entry probe on a non-null key
\* is followed by the matching return probe, exactly one completed record is
\* emitted for the pair if the entry probe's insertion went into the table
\* and the channel has room when the return probe emits, and none otherwise;
\* every emitted record has start_time # 0, end_time # 0 and
\* end_time > start_time, and no record is emitted twice.
TrackedPairEmitsOneRecord ==
    /\ [][PairedLookupStep
            => IF open[last'.key].tracked
               THEN /\ th'[1].pc = "emit"
                    /\ th'[1].req.start_time = open[last'.key].start
                    /\ th'[1].req.end_time = 0
               ELSE /\ th'[1].pc = "idle"
                    /\ UNCHANGED <<chan, emitted>>]_vars
    /\ [][PairedEmitStep
            => LET k == th[1].key
                   r == th'[1].req
               IN  IF Len(chan) < PerfCapacity
                   THEN /\ emitted' = Append(emitted, [key |-> k, rec |-> r])
                        /\ chan' = Append(chan, r)
                        /\ EmittedFor(k, r.start_time) = {}
                        /\ r.start_time = th[1].pair.start
                        /\ r.start_time # 0
                        /\ r.end_time # 0
                        /\ r.end_time > r.start_time
                   ELSE UNCHANGED <<chan, emitted>>]_vars
    /\ [](/\ NoDuplicateRecord
          /\ \A i \in DOMAIN emitted :
                /\ emitted[i].rec.start_time # 0
                /\ emitted[i].rec.end_time # 0
                /\ emitted[i].rec.end_time > emitted[i].rec.start_time)

\* A tracked pair has emitted its record.
TrackedPairSeen ==
    /\ last.step = "emit"
    /\ th[1].pc = "delete"
    /\ th[1].key \in Keys
    /\ th[1].pair.by = EntryOf(th[1].probe)
    /\ th[1].pair.tracked
    /\ EmittedFor(th[1].key, th[1].pair.start) # {}

\* C1 as stated: the matching return probe always finds the record of its
\* entry probe and always emits it.
EveryPairEmitsOneRecord ==
    /\ [][PairedLookupStep => th'[1].pc = "emit"]_vars
    /\ [][PairedEmitStep => Len(emitted') = Len(emitted) + 1]_vars

\* ------------------------------------------------------------------- C2
\* C2 as amended: as long as no return probe on a key has overlapped another
\* probe on that key, no record is emitted twice, however many return probes
\* fire on the key; a return probe that finds no entry returns at once.
OneRecordUnlessReturnOverlaps == ~raced => NoDuplicateRecord

\* A second return probe fired on a key after its record was emitted, with
\* no overlap, and found nothing.
DuplicateReturnSeen ==
    /\ ~raced
    /\ last.probe \in ReturnProbes
    /\ last.step = "miss"
    /\ \E i \in DOMAIN emitted : emitted[i].key = last.key
    /\ \A t \in Threads : th[t].pc = "idle"

\* C2 as stated: whatever the interleaving of the return probes' steps, no
\* record is emitted twice.
OneRecordInEveryInterleaving ==
    \A i \in DOMAIN emitted :
        Cardinality(EmittedFor(emitted[i].key, emitted[i].rec.start_time)) <= 1

\* ------------------------------------------------------------------- C5
\* The bytes of a readable source that a bounded read of a field of cap
\* bytes takes: the first min(cap, len).
TextOf(src, cap) ==
    IF src.ptr = NULL THEN <<>> ELSE SubSeq(src.data, 1, Min(cap, src.len))

\* What a bounded read leaves in a field of cap bytes that held old: bytes
\* 1 .. min(cap, len) come from the source, the field's other bytes are as
\* they were, and nothing lies beyond the field.
Copied(old, new, src, cap) ==
    LET n == Min(cap, src.len)
    IN  /\ Len(new) <= cap
        /\ \A i \in 1..cap : i > n => ByteAt(new, i) = ByteAt(old, i)
        /\ (src.ptr # NULL /\ n <= Len(src.data))
              => \A i \in 1..n : ByteAt(new, i) = src.data[i]
        /\ (src.ptr # NULL /\ src.len > cap /\ cap <= Len(src.data))
              => new = SubSeq(src.data, 1, cap)

MethodReadStep ==
    th[1].pc = "idle" /\ th'[1].pc = "write" /\ th'[1].probe = "hyper_request_method"

PathReadStep ==
    th[1].pc = "idle" /\ th'[1].pc = "write" /\ th'[1].probe = "hyper_request_uri"

ClientReadStep ==
    th[1].pc = "update" /\ th[1].probe = "tonic_client_call" /\ th'[1].pc = "span"

\* C5: every string extraction (HTTP method, HTTP path, gRPC client service
\* and method) copies min(field capacity, reported length) bytes: a source
\* longer than the field (16 bytes for a method, 256 for a path or service)
\* leaves the first capacity bytes of the source in it, the field never
\* grows beyond its capacity, and the rest of the record is not written.
ExtractionIsBounded ==
    /\ [][MethodReadStep
            => LET k == th'[1].key
                   new == th'[1].req.method
               IN  /\ Copied(table[k].method, new, th'[1].in.method, MAX_METHOD_SIZE)
                   /\ th'[1].req = [table[k] EXCEPT !.method = new]]_vars
    /\ [][PathReadStep
            => LET k == th'[1].key
                   new == th'[1].req.path
               IN  /\ Copied(table[k].path, new, th'[1].in.path, MAX_PATH_SIZE)
                   /\ th'[1].req = [table[k] EXCEPT !.path = new]]_vars
    /\ [][ClientReadStep
            => LET r == th'[1].req
                   in == th'[1].in
               IN  /\ IF in.service.ptr # NULL
                      THEN Copied(<<>>, r.service, in.service, MAX_PATH_SIZE)
                      ELSE r.service = <<>>
                   /\ IF in.method.ptr # NULL
                      THEN Copied(<<>>, r.method, in.method, MAX_METHOD_SIZE)
                      ELSE r.method = <<>>
                   /\ r = [th[1].req EXCEPT !.service = r.service,
                                            !.method = r.method, !.sc = nsc]]_vars

\* A method longer than the field was read and cut to the field's size.
LongMethodSeen ==
    /\ th[1].pc = "write"
    /\ th[1].probe = "hyper_request_method"
    /\ th[1].in.method.len > MAX_METHOD_SIZE
    /\ th[1].req.method = SubSeq(th[1].in.method.data, 1, MAX_METHOD_SIZE)

\* ------------------------------------------------------------------- C9
\* C9: a null source pointer for one field leaves that field as it was and
\* the rest of the record untouched; in particular a URI enrichment whose
\* path pointer is null writes the record back with the stored path as it
\* was and every other field of it as it was.
NullPathKeepsStoredPath ==
    [][(PathReadStep /\ th'[1].in.path.ptr = NULL)
         => th'[1].req = table[th'[1].key]]_vars

\* ------------------------------------------------------------------- C6
\* A method and a URI enrichment have fired on the request, each with a
\* readable source that fits its field.
BothEnriched(o) ==
    /\ o.by = "hyper_serve_connection"
    /\ o.method.ptr # NULL
    /\ o.method.len = Len(o.method.data)
    /\ o.method.len <= MAX_METHOD_SIZE
    /\ o.path.ptr # NULL
    /\ o.path.len = Len(o.path.data)
    /\ o.path.len <= MAX_PATH_SIZE

\* The return probe starts on a request opened and enriched in this way.
EnrichedLookupStep == PairedLookupStep /\ BothEnriched(open[last'.key])

\* The return probe emits for such a request.
EnrichedEmitStep == PairedEmitStep /\ BothEnriched(th[1].pair)

\* The record of the request the return probe of thread 1 is closing.
FullRecord ==
    [start_time |-> th[1].pair.start, end_time |-> now,
     method |-> th[1].pair.method.data, path |-> th[1].pair.path.data,
     status_code |-> 0, sc |-> th[1].pair.sc]

\* C6 as amended: when the HTTP probes fire one after the other on a key in
\* the order entry, method enrichment (m <= 16 bytes), URI enrichment
\* (p <= 256 bytes), return, and the entry probe's insertion went into the
\* table and the channel has room when the return probe emits, exactly one
\* record is emitted: it carries exactly those method and path bytes, the
\* start timestamp of the entry probe, the clock read by the return probe
\* as end timestamp, and the span context generated at entry.  When the
\* insertion failed or the channel is full no record is emitted.
EnrichedPairEmitsFullRecord ==
    /\ [][EnrichedLookupStep
            => IF open[last'.key].tracked
               THEN th'[1].pc = "emit"
               ELSE th'[1].pc = "idle" /\ UNCHANGED <<chan, emitted>>]_vars
    /\ [][EnrichedEmitStep
            => IF Len(chan) < PerfCapacity
               THEN /\ emitted' = Append(emitted, [key |-> th[1].key, rec |-> FullRecord])
                    /\ chan' = Append(chan, FullRecord)
                    /\ EmittedFor(th[1].key, th[1].pair.start) = {}
               ELSE UNCHANGED <<chan, emitted>>]_vars

\* The record of an enriched request was emitted.
EnrichedPairSeen ==
    /\ last.step = "emit"
    /\ th[1].pc = "delete"
    /\ BothEnriched(th[1].pair)
    /\ th[1].req.method = GET
    /\ th[1].req.path = HEALTHZ
    /\ th[1].req.end_time > th[1].req.start_time
    /\ emitted # <<>>
    /\ emitted[Len(emitted)] = [key |-> th[1].key, rec |-> th[1].req]

\* C6 as stated: the sequence entry, method enrichment, URI enrichment,
\* return always emits exactly one record, with those bytes, timestamps and
\* span context.
EnrichedPairAlwaysEmitsFullRecord ==
    /\ [][EnrichedLookupStep => th'[1].pc = "emit"]_vars
    /\ [][EnrichedEmitStep
            => emitted' = Append(emitted, [key |-> th[1].key, rec |-> FullRecord])]_vars

\* ------------------------------------------------------------------- C7
\* Thread 1 takes the table update of an entry probe on a key that has an
\* entry.
ReplaceStep ==
    /\ th[1].pc = "update"
    /\ th'[1] # th[1]
    /\ th[1].key \in DOMAIN table

\* The update put a fresh record in the place of the old one and did
\* nothing else.
FreshRecord ==
    LET k == th[1].key
    IN  /\ DOMAIN table' = DOMAIN table
        /\ \A j \in (DOMAIN table) \ {k} : table'[j] = table[j]
        /\ table'[k].start_time = th[1].req.start_time
        /\ table'[k].start_time > table[k].start_time
        /\ table'[k].sc = nsc
        /\ table'[k].sc # table[k].sc
        /\ table'[k].end_time = 0
        /\ table'[k].status_code = 0
        /\ UNCHANGED <<chan, emitted, dropped>>

EmptyText(r) ==
    IF obj = "hyper" THEN r.method = <<>> /\ r.path = <<>>
    ELSE r.service = <<>> /\ r.method = <<>>

\* C7 as amended: when an entry probe fires on a key that has an entry (also
\* with the table at full capacity) the record is replaced by a fresh one
\* with a new start timestamp, a new span context and end_time = 0; its text
\* fields are empty for the HTTP and gRPC server entries and hold the
\* service and method the probe itself extracted for the gRPC client entry;
\* nothing is emitted for the replaced record, then or later (a return probe
\* emits the record of the entry probe fired last), and the number of
\* entries does not change.
ReentryReplacesRecord ==
    /\ [][ReplaceStep
            => /\ FreshRecord
               /\ IF th[1].probe = "tonic_client_call"
                  THEN /\ table'[th[1].key].service
                             = TextOf(th'[1].in.service, MAX_PATH_SIZE)
                       /\ table'[th[1].key].method
                             = TextOf(th'[1].in.method, MAX_METHOD_SIZE)
                  ELSE EmptyText(table'[th[1].key])]_vars
    /\ [][(th[1].pc = "emit" /\ th'[1] # th[1] /\ th[1].pair.by # "none")
            => /\ th[1].req.start_time = th[1].pair.start
               /\ th[1].req.sc = th[1].pair.sc]_vars

\* An entry probe replaced the record of its key in a full table.
ReentrySeen ==
    /\ last.step = "replace"
    /\ th[1].pc = "span"
    /\ Cardinality(DOMAIN table) = MAX_CONCURRENT
    /\ table[th[1].key] = th[1].req

\* C7 as stated: the fresh record always has empty text fields.
ReentryLeavesEmptyText ==
    [][ReplaceStep => (FreshRecord /\ EmptyText(table'[th[1].key]))]_vars

AllIdle == \A t \in Threads : th[t].pc = "idle"

\* The span context of every emitted record is the one generated by the
\* entry probe that stamped the record's start_time.
EmittedCarryEntryContext ==
    \A i \in DOMAIN emitted :
        <<emitted[i].rec.start_time, emitted[i].rec.sc>> \in stamped

\* C12 as stated: in every reachable state and under any interleaving, a
\* key that is in both the table and the span index has the same span
\* context in both, and every emitted record carries the span context
\* generated by the entry probe that stamped its start_time.
SpanContextIdenticalEverywhere ==
    /\ \A k \in DOMAIN table \cap DOMAIN spans : table[k].sc = spans[k]
    /\ EmittedCarryEntryContext

\* C12 (amended): under any interleaving every entry probe pairs its
\* start_time with one span context, and every stored record and every
\* emitted record carries the span context generated by the entry probe
\* that stamped its start_time; every span-index entry is a span context
\* generated by an entry probe; and whenever no probe is mid-execution and
\* no two probes have run concurrently on one key, a key that is in both
\* the table and the span index has the same span context in both.
SpanContextFixedAtEntry ==
    /\ \A p \in stamped : \A q \in stamped : p[1] = q[1] => p = q
    /\ EmittedCarryEntryContext
    /\ \A k \in DOMAIN table : <<table[k].start_time, table[k].sc>> \in stamped
    /\ \A k \in DOMAIN spans : \E p \in stamped : p[2] = spans[k]
    /\ (AllIdle /\ ~overlapped)
          => \A k \in DOMAIN table \cap DOMAIN spans : table[k].sc = spans[k]

\* A key re-entered after its first request was emitted, with no probe
\* mid-execution and no overlap so far: table and index hold the new span
\* context, the emitted record the old one.
ReenteredContextSeen ==
    /\ AllIdle /\ ~overlapped
    /\ last.step = "span"
    /\ last.key \in DOMAIN table \cap DOMAIN spans
    /\ table[last.key].sc = spans[last.key]
    /\ \E i \in DOMAIN emitted :
          /\ emitted[i].key = last.key
          /\ emitted[i].rec.sc # spans[last.key]
          /\ emitted[i].rec.start_time < table[last.key].start_time

\* ------------------------------------------------------------------ C13
\* A source string the probe can read in full.
Readable(src) == src.ptr # NULL /\ src.len = Len(src.data)

\* C13: enrichment is last-write-wins per field: when the same enrichment
\* probe fires twice in sequence on one key with two different readable
\* source strings, the record it writes back after the second firing holds
\* in that field exactly the second string, cut to the field's capacity,
\* and no byte of the first, also when the second is the shorter one.
LastWriteWinsPerField ==
    /\ [][MethodReadStep
            => LET first == open[th'[1].key].method
                   second == th'[1].in.method
               IN  (Readable(first) /\ Readable(second) /\ first # second)
                     => th'[1].req.method = TextOf(second, MAX_METHOD_SIZE)]_vars
    /\ [][PathReadStep
            => LET first == open[th'[1].key].path
                   second == th'[1].in.path
               IN  (Readable(first) /\ Readable(second) /\ first # second)
                     => th'[1].req.path = TextOf(second, MAX_PATH_SIZE)]_vars
    /\ [][(th[1].pc = "write" /\ th'[1].pc = "idle")
            => /\ th[1].key \in DOMAIN table'
               /\ table'[th[1].key] = th[1].req]_vars

\* ------------------------------------------------------------------ C14
\* Thread 1 takes the emit step of tonic_server_serve_return and the record
\* goes into the channel.
ServerReturnEmitStep ==
    /\ At(1, "tonic_server_serve_return", "emit")
    /\ th'[1].pc = "delete"
    /\ emitted' # emitted

\* C14 as stated: after any sequence of gRPC server and client probe
\* firings, every record emitted by tonic_server_serve_return has an empty
\* service and an empty method and carries the start timestamp and the span
\* context written by tonic_server_serve.
ServerReturnEmitsServerRecord ==
    [][ServerReturnEmitStep
         => LET rec == emitted'[Len(emitted')].rec
            IN  /\ rec.service = <<>>
                /\ rec.method = <<>>
                /\ th[1].pair.by = "tonic_server_serve"
                /\ rec.start_time = th[1].pair.start
                /\ rec.sc = th[1].pair.sc]_vars

\* C14 (amended): tonic_server_serve_return emits the record it looked up
\* under its key, with the end timestamp added: the record of the entry
\* probe that fired last on that key, with that probe's start timestamp and
\* span context.  When that probe was tonic_server_serve the service and the
\* method are empty; when it was tonic_client_call, which shares the table,
\* the record is the client's.
ServerReturnEmitsStoredRecord ==
    [][ServerReturnEmitStep
         => LET rec == emitted'[Len(emitted')].rec
            IN  /\ emitted' = Append(emitted, [key |-> th[1].key, rec |-> rec])
                /\ rec = [table[th[1].key] EXCEPT !.end_time = now]
                /\ th[1].pair.by \in {"tonic_server_serve", "tonic_client_call"}
                /\ rec.start_time = th[1].pair.start
                /\ rec.sc = th[1].pair.sc
                /\ (th[1].pair.by = "tonic_server_serve")
                      => (rec.service = <<>> /\ rec.method = <<>>)]_vars

\* tonic_server_serve_return has emitted the record of a tonic_server_serve.
ServerRecordSeen ==
    /\ last.probe = "tonic_server_serve_return"
    /\ last.step = "emit"
    /\ th[1].pair.by = "tonic_server_serve"
    /\ emitted # <<>>
    /\ emitted[Len(emitted)].rec.service = <<>>
    /\ emitted[Len(emitted)].rec.method = <<>>
    /\ emitted[Len(emitted)].rec.start_time = th[1].pair.start

\* ------------------------------------------------------------------ C15
\* The number of arguments the calling convention passes in registers.
RegisterArguments(arch) == IF arch = "x86_64" THEN 6 ELSE 8

\* C15: get_argument is total: for a position from 1 to 6 (x86-64) or from
\* 1 to 8 (aarch64) it returns the register of that argument, for every
\* other position (zero, negative, above the limit) NULL;
\* get_argument_by_stack returns the 8-byte value stored at SP + 8 * pos,
\* or NULL when that address cannot be read.
ArgumentExtractionIsTotal ==
    /\ call.fn = "get_argument"
         => call.ret = IF call.pos >= 1 /\ call.pos <= RegisterArguments(call.arch)
                       THEN call.ctx.regs[call.pos]
                       ELSE NULL
    /\ call.fn = "get_argument_by_stack"
         => LET slot == call.ctx.sp + 8 * call.pos
            IN  IF slot \in DOMAIN call.ctx.mem
                THEN LeBytes(call.ret, 8) = call.ctx.mem[slot]
                ELSE call.ret = NULL

\* The seventh argument was asked for on x86-64: NULL, whatever the
\* register file holds.
SeventhArgumentSeen ==
    /\ call.fn = "get_argument"
    /\ call.arch = "x86_64"
    /\ call.pos = 7
    /\ call.ctx.regs[7] # NULL
    /\ call.ret = NULL

\* ------------------------------------------------------------------ C20
\* The characters '0'-'9' and 'a'-'f'.
LowerHexDigits == (48..57) \cup (97..102)

\* The digit of a nibble, looked up in the string "0123456789abcdef".
DigitOf(nibble) ==
    <<48, 49, 50, 51, 52, 53, 54, 55, 56, 57, 97, 98, 99, 100, 101, 102>>[nibble + 1]

\* C20: bytes_to_hex_string writes exactly 2 * size characters, each of
\* them in '0'-'9' or 'a'-'f', the high nibble of every byte first (32
\* characters for a 16-byte trace id, 16 for an 8-byte span id), and
\* hex_string_to_bytes of that output returns the original bytes.
HexRoundTrip ==
    LET size == Len(call.bytes)
    IN  /\ call.fn \in {"bytes_to_hex_string", "hex_string_to_bytes"}
             => /\ Len(call.hex) = 2 * size + 1
                /\ call.hex[2 * size + 1] = 0
                /\ \A j \in 1..(2 * size) : call.hex[j] \in LowerHexDigits
                /\ \A i \in 1..size :
                      /\ call.hex[2 * i - 1] = DigitOf(call.bytes[i] \div 16)
                      /\ call.hex[2 * i] = DigitOf(call.bytes[i] % 16)
                /\ size = TRACE_ID_SIZE => Len(SelectSeq(call.hex, LAMBDA c : c # 0)) = 32
                /\ size = SPAN_ID_SIZE => Len(SelectSeq(call.hex, LAMBDA c : c # 0)) = 16
        /\ call.fn = "hex_string_to_bytes" => call.out = call.bytes

\* A 16-byte identifier with digits above 9 went through both conversions.
TraceIdRoundTripSeen ==
    /\ call.fn = "hex_string_to_bytes"
    /\ Len(call.bytes) = TRACE_ID_SIZE
    /\ call.out = call.bytes
    /\ \E j \in 1..32 : call.hex[j] >= 97
    /\ \E j \in 1..32 : call.hex[j] <= 57

\* ------------------------------------------------------------------ C16
\* The stored record of k holds the method and the path the enrichment
\* probes fired on k were given.
HoldsBoth(k) ==
    /\ table[k].method = open[k].method.data
    /\ table[k].path = open[k].path.data

\* Both enrichment probes have fired on the in-flight request of k and no
\* probe is mid-execution.
BothCompleted(k) ==
    /\ AllIdle
    /\ k \in DOMAIN table
    /\ obj = "hyper"
    /\ BothEnriched(open[k])

\* C16 as stated: when the method and the URI enrichment probe both fire
\* on one in-flight key, then in every interleaving of their lookup, copy
\* and write-back steps the stored record contains both the method and the
\* path once both have completed.
BothFieldsInEveryInterleaving ==
    \A k \in DOMAIN open : (BothCompleted(k) /\ ~raced) => HoldsBoth(k)

\* C16 (amended): when the method and the URI enrichment probe both fire
\* on one in-flight key and neither runs concurrently with another probe
\* on that key, the stored record contains both the method and the path
\* once both have completed.
BothFieldsUnlessOverlapping ==
    \A k \in DOMAIN open : (BothCompleted(k) /\ ~overlapped) => HoldsBoth(k)

\* The second of the two enrichment probes has written back, with no
\* overlap so far, and the record holds both fields.
BothFieldsStoredSeen ==
    /\ last.step = "write"
    /\ BothCompleted(last.key)
    /\ ~overlapped
    /\ table[last.key].method # <<>>
    /\ table[last.key].path # <<>>
    /\ HoldsBoth(last.key)

\* ------------------------------------------------------------------ C17
\* C17: CLOSED is terminal: once a return probe has removed key K from the
\* table, K stays absent until the next entry probe fires on K; a key that
\* is absent enters the table only by the update of an entry probe on it,
\* and never by an enrichment probe, also when the enrichment probe's
\* lookup ran before and its write-back runs after the return probe's
\* delete.
ClosedIsTerminal ==
    [][\A k \in (DOMAIN table') \ (DOMAIN table) :
          /\ last'.probe \in EntryProbes
          /\ last'.key = k]_vars

\* ------------------------------------------------------------------ C18
\* Thread t takes the step of a return probe that deletes its key from the
\* table.
DeleteStep(t) == th[t].pc = "delete" /\ th'[t].pc = "delspan"

\* The entry under the key of thread t is the record t looked up: the same
\* start_time and the same span context.
DeletesOwnRecord(t) ==
    /\ th[t].key \in DOMAIN table
    /\ table[th[t].key].start_time = th[t].req.start_time
    /\ table[th[t].key].sc = th[t].req.sc

\* C18 as stated: a record is removed from the table only by the return
\* probe that emits it: whenever a return probe deletes key K, the entry
\* it deletes has the start_time and the span context of the record that
\* probe looked up and emitted, in every interleaving with an entry probe
\* that reuses K between the return probe's emit and its delete.
ReturnDeletesOwnRecord ==
    [][/\ \A k \in (DOMAIN table) \ (DOMAIN table') :
             \E t \in Threads : DeleteStep(t) /\ th[t].key = k
       /\ \A t \in Threads : DeleteStep(t) => DeletesOwnRecord(t)]_vars

\* C18 (amended): a key leaves the table only by the delete of a return
\* probe on that key, which removes that key and nothing else; when no
\* return probe has run concurrently with another probe on its key, the
\* entry it deletes has the start_time and the span context of the record
\* it looked up.
ReturnDeletesOwnRecordUnlessReused ==
    [][/\ \A k \in (DOMAIN table) \ (DOMAIN table') :
             \E t \in Threads : DeleteStep(t) /\ th[t].key = k
       /\ \A t \in Threads :
             DeleteStep(t)
               => /\ DOMAIN table' = (DOMAIN table) \ {th[t].key}
                  /\ \A j \in DOMAIN table' : table'[j] = table[j]
                  /\ ~raced => DeletesOwnRecord(t)]_vars

\* A return probe that ran alone has emitted and deleted the record of a
\* request entered on a reused key.
OwnRecordDeletedSeen ==
    \E t \in Threads :
        /\ th[t].pc = "delspan"
        /\ ~raced
        /\ th[t].key \notin DOMAIN table
        /\ th[t].req.start_time >= BootTime
        /\ emitted # <<>>
        /\ emitted[Len(emitted)].rec = th[t].req

\* ------------------------------------------------------------------ C19
\* Thread 1 finishes a return probe on a non-null key.
ReturnDoneStep ==
    /\ th'[1].pc = "idle"
    /\ last'.probe \in ReturnProbes
    /\ last'.step \in {"miss", "delspan"}
    /\ last'.key # NULL

\* C19 as stated: whenever no probe is mid-execution every key in the span
\* index is in the table: a request whose entry probe found the table full
\* leaves no span-index entry behind, and a return probe leaves no
\* span-index entry under its key.
SpanIndexWithinTable ==
    /\ [](AllIdle => (DOMAIN spans) \subseteq (DOMAIN table))
    /\ [][ReturnDoneStep => last'.key \notin DOMAIN spans']_vars

\* C19 (amended): whenever no probe is mid-execution, every key in the
\* span index is in the table or is the key of a request whose entry probe
\* found the table full; a return probe that finds its key in the table
\* ends with the key in neither the table nor the span index; a return
\* probe that does not find its key leaves the span index as it is.
SpanIndexWithinTableOrUntracked ==
    /\ [](AllIdle => ((DOMAIN spans) \ (DOMAIN table)) \subseteq untracked)
    /\ [][(ReturnDoneStep /\ last'.step = "delspan")
            => /\ last'.key \notin DOMAIN table'
               /\ last'.key \notin DOMAIN spans']_vars
    /\ [][(ReturnDoneStep /\ last'.step = "miss")
            => UNCHANGED <<table, spans>>]_vars

\* The return probe of an untracked request has fired and its span-index
\* entry is still there.
UntrackedSpanLeftSeen ==
    /\ AllIdle
    /\ last.probe \in ReturnProbes
    /\ last.step = "miss"
    /\ last.key \in untracked
    /\ last.key \in DOMAIN spans
    /\ last.key \notin DOMAIN table

====
